---------------------------- MODULE Spec2Model ----------------------------
(***************************************************************************)
(* Dual-formation animation engine (scattered cloud <-> tree spiral).      *)
(*                                                                         *)
(* Numbers.  Every real number of the program is a fixed-point integer in  *)
(* units of 1/Scale (Scale = 1000, so 0.001 is one unit).  A product is    *)
(* rounded to the nearest unit, the way a floating-point product is        *)
(* rounded to the nearest representable value.  Times are in the same      *)
(* units (one unit = 1 ms), angles in milliradians.                        *)
(*                                                                         *)
(* Scheduling.  The render loop calls the useFrame callbacks of one frame  *)
(* synchronously, one after the other, in subscription order, so a frame   *)
(* is one atomic step; a click on the overlay button happens between two   *)
(* frames.                                                                 *)
(***************************************************************************)
EXTENDS Integers, Sequences, FiniteSets, TLC

VARIABLES
  treeState,          \* App.tsx useState<TreeState>
  animationProgress,  \* SceneContent: animationProgress.current
  delta,              \* the delta handed to the useFrame callbacks of the last frame
  elapsedTime,        \* state.clock.elapsedTime
  groupRotationY,     \* SceneContent: groupRef.current.rotation.y
  foliageData,        \* Foliage: positionsScatter, positionsTree, randoms
  uniforms,           \* Foliage: shaderRef.current.uniforms (uTime, uProgress)
  ribbonProps,        \* Ribbon: its props
  paths,              \* Ribbon: treePath and scatterPath
  geometry,           \* Ribbon: meshRef.current.geometry (position, uv, index, normal)
  data,               \* Ornaments: the PositionData items
  instanceMatrix,     \* Ornaments: meshRef.current.instanceMatrix
  tempObject,         \* Ornaments.tsx: the module-level scratch Object3D
  topperData,         \* StarTopper: posScatter, posTree
  topper,             \* StarTopper: groupRef.current (position, rotation, scale)
  seen,               \* history: the progress each consumer read in the last frame
  written,            \* history: the vertex slots the Ribbon wrote in the last frame
  switchPhase,        \* history: "switched" right after a toggle made while
                      \* 0 < progress < 1, "moved" after the tick that follows it
  ascentFromZero,     \* history: the target was set to 1 while progress was 0
                      \* and has been held since
  sample              \* the last call of a sampler on its own: arguments, draws, result

\* what the scene's components hold besides the controller's own state
sceneVars == <<elapsedTime, groupRotationY, foliageData, uniforms, ribbonProps, paths,
               geometry, data, instanceMatrix, tempObject, topperData, topper, seen,
               written>>

vars == <<treeState, animationProgress, delta, switchPhase, ascentFromZero,
          elapsedTime, groupRotationY, foliageData, uniforms, ribbonProps, paths,
          geometry, data, instanceMatrix, tempObject, topperData, topper, seen,
          written, sample>>

---------------------------------------------------------------------------
(* Fixed-point arithmetic *)

Scale == 10 * 10 * 10

Abs(x) == IF x < 0 THEN -x ELSE x

Sign(x) == IF x < 0 THEN -1 ELSE IF x > 0 THEN 1 ELSE 0

\* a / b rounded to the nearest integer, ties away from zero (b > 0)
RoundDiv(a, b) ==
  IF a >= 0 THEN (2 * a + b) \div (2 * b) ELSE -((2 * (-a) + b) \div (2 * b))

\* the product of two fixed-point numbers
Mul(a, b) == RoundDiv(a * b, Scale)

\* a / b for fixed-point a and b (b > 0)
Div(a, b) == RoundDiv(a * Scale, b)

\* floor of the square root of n >= 0, by bisection on lo <= sqrt(n) < hi
RECURSIVE SqrtBetween(_, _, _)
SqrtBetween(n, lo, hi) ==
  IF hi - lo <= 1 THEN lo
  ELSE LET mid == (lo + hi) \div 2
       IN  IF mid * mid <= n THEN SqrtBetween(n, mid, hi) ELSE SqrtBetween(n, lo, mid)

ISqrt(n) == SqrtBetween(n, 0, 46341)

\* Math.sqrt of a fixed-point number >= 0
Sqrt(x) == ISqrt(x * Scale)

\* floor of the cube root of n >= 0
RECURSIVE CbrtBetween(_, _, _)
CbrtBetween(n, lo, hi) ==
  IF hi - lo <= 1 THEN lo
  ELSE LET mid == (lo + hi) \div 2
       IN  IF mid * mid * mid <= n THEN CbrtBetween(n, mid, hi) ELSE CbrtBetween(n, lo, mid)

\* Math.cbrt of a fixed-point number in [0, 1]: cbrt(x / S) * S = cbrt(x * S * S)
Cbrt(x) == CbrtBetween(x * Scale * Scale, 0, 1291)

\* pi and 2 pi in milliradians
Pi == 3142

TwoPi == 2 * Pi

\* sin on [0, pi] (Bhaskara's rational approximation; exact at 0, pi/2, pi)
SinHalfTurn(x) ==
  LET a == x * (Pi - x)
  IN  RoundDiv(16 * a, RoundDiv(5 * Pi * Pi - 4 * a, Scale))

\* Math.sin and Math.cos of an angle in milliradians
Sin(x) ==
  LET r == x % TwoPi
  IN  IF r <= Pi THEN SinHalfTurn(r) ELSE -SinHalfTurn(r - Pi)

Cos(x) == Sin(x + Pi \div 2)

\* THREE.MathUtils.lerp(x, y, t) = (1 - t) * x + t * y
Lerp(x, y, t) == Mul(Scale - t, x) + Mul(t, y)

\* the eased progress p * p * (3 - 2 * p)
Smoothstep(p) == Mul(Mul(p, p), 3 * Scale - 2 * p)

---------------------------------------------------------------------------
(* THREE.Vector3, as <<x, y, z>> *)

Vec(x, y, z) == <<x, y, z>>

ZeroVec == <<0, 0, 0>>

VAdd(a, b) == <<a[1] + b[1], a[2] + b[2], a[3] + b[3]>>

VSub(a, b) == <<a[1] - b[1], a[2] - b[2], a[3] - b[3]>>

\* multiplyScalar
VScale(a, k) == <<Mul(a[1], k), Mul(a[2], k), Mul(a[3], k)>>

\* crossVectors(a, b)
Cross(a, b) ==
  << Mul(a[2], b[3]) - Mul(a[3], b[2]),
     Mul(a[3], b[1]) - Mul(a[1], b[3]),
     Mul(a[1], b[2]) - Mul(a[2], b[1]) >>

\* length(); components beyond 26 are halved first to stay within 32 bits
RECURSIVE Length(_)
Length(a) ==
  IF Abs(a[1]) > 26 * Scale \/ Abs(a[2]) > 26 * Scale \/ Abs(a[3]) > 26 * Scale
  THEN 2 * Length(<<a[1] \div 2, a[2] \div 2, a[3] \div 2>>)
  ELSE ISqrt(a[1] * a[1] + a[2] * a[2] + a[3] * a[3])

\* normalize(): divideScalar(length() || 1), so the zero vector stays zero
Normalize(a) ==
  LET len == Length(a)
      d   == IF len = 0 THEN Scale ELSE len
  IN  <<Div(a[1], d), Div(a[2], d), Div(a[3], d)>>

\* lerpVectors(a, b, t): a + (b - a) * t
LerpVectors(a, b, t) ==
  << a[1] + Mul(b[1] - a[1], t), a[2] + Mul(b[2] - a[2], t), a[3] + Mul(b[3] - a[3], t) >>

\* applyAxisAngle(axis, angle): the quaternion of setFromAxisAngle applied
\* by applyQuaternion (t = 2 q x v; v + qw t + q x t)
ApplyAxisAngle(v, axis, angle) ==
  LET s  == Sin(angle \div 2)
      qw == Cos(angle \div 2)
      q  == VScale(axis, s)
      t  == VScale(Cross(q, v), 2 * Scale)
  IN  VAdd(VAdd(v, VScale(t, qw)), Cross(q, t))

---------------------------------------------------------------------------
(* Math.random(): the k-th draw of the run whose stream is `seed`, in [0,1) *)

\* number of random streams explored, beyond stream 0
MaxSeed == 1

Seeds == { j * 137 : j \in 0..MaxSeed }

Random(seed, k) == (seed + k * 617) % Scale

---------------------------------------------------------------------------
(* utils/math: the two samplers *)

\* a faulty variant: the point is drawn in the cube around the sphere
getScatterPositionInCube(radius, u, v, w) ==
  << Mul(2 * u - Scale, radius), Mul(2 * v - Scale, radius), Mul(2 * w - Scale, radius) >>

\* getScatterPosition(radius), with its three draws u, v and the radial draw w.
\* phi = acos(2v - 1), so cos(phi) = 2v - 1 and sin(phi) = sqrt(1 - cos(phi)^2).
getScatterPosition(radius, u, v, w) ==
  LET theta  == Mul(TwoPi, u)
      cosPhi == 2 * v - Scale
      sinPhi == Sqrt(Scale - Mul(cosPhi, cosPhi))
      r      == Mul(Cbrt(w), radius)
  IN  << Mul(Mul(r, sinPhi), Cos(theta)),
         Mul(Mul(r, sinPhi), Sin(theta)),
         Mul(r, cosPhi) >>

\* Math.PI * (3 - Math.sqrt(5)), in milliradians
goldenAngle == Mul(Pi, 3 * Scale - Sqrt(5 * Scale))

\* a faulty variant: the spiral is laid from the top down
getTreePositionTopDown(height, baseRadius, yOffset, index, total, w) ==
  LET y              == Mul(Scale - RoundDiv(index * Scale, total), height)
      radiusAtHeight == Mul(Scale - Div(y, height), baseRadius)
      r              == Mul(radiusAtHeight, Sqrt(w))
      theta          == index * goldenAngle
  IN  << Mul(r, Cos(theta)), y - yOffset, Mul(r, Sin(theta)) >>

\* a faulty variant: the radius does not taper with the height
getTreePositionNoTaper(height, baseRadius, yOffset, index, total, w) ==
  LET y     == Mul(RoundDiv(index * Scale, total), height)
      r     == Mul(baseRadius, Sqrt(w))
      theta == index * goldenAngle
  IN  << Mul(r, Cos(theta)), y - yOffset, Mul(r, Sin(theta)) >>

\* getTreePosition(height, baseRadius, yOffset, index, total), with its draw w;
\* index and total are plain integers
getTreePosition(height, baseRadius, yOffset, index, total, w) ==
  LET y              == Mul(RoundDiv(index * Scale, total), height)
      radiusAtHeight == Mul(Scale - Div(y, height), baseRadius)
      r              == Mul(radiusAtHeight, Sqrt(w))
      theta          == index * goldenAngle
  IN  << Mul(r, Cos(theta)), y - yOffset, Mul(r, Sin(theta)) >>

---------------------------------------------------------------------------
(* Construction: the useMemo blocks *)

\* particles of the Foliage in the model (6000 in Experience.tsx)
FoliageCount == 2

\* Foliage useMemo: per particle a scatter position, a tree position, a random
FoliageData(seed) ==
  LET d(i, j) == Random(seed, 5 * i + j)
  IN  [ positionsScatter |->
          [ i \in 0..(FoliageCount - 1) |->
              getScatterPosition(15 * Scale, d(i, 0), d(i, 1), d(i, 2)) ],
        positionsTree |->
          [ i \in 0..(FoliageCount - 1) |->
              getTreePosition(12 * Scale, 5 * Scale, 6 * Scale, i, FoliageCount, d(i, 3)) ],
        randoms |-> [ i \in 0..(FoliageCount - 1) |-> d(i, 4) ] ]

\* largest segment count of a ribbon in the model (100..150 in Ribbons.tsx)
MaxSegments == 2

\* the props of the first gold and the first red <Ribbon> of Ribbons, without
\* `length`
RibbonStyles ==
  { [ width |-> 600, radius |-> 6 * Scale, turns |-> 3500,
      yStart |-> -5 * Scale, yEnd |-> 7 * Scale,
      phaseOffset |-> 0, scatterRadius |-> 15 * Scale ],
    [ width |-> 250, radius |-> 6200, turns |-> 4500,
      yStart |-> -6 * Scale, yEnd |-> 8 * Scale,
      phaseOffset |-> Mul(Pi, 250), scatterRadius |-> 12 * Scale ] }

RibbonProps ==
  { [ width |-> st.width, segments |-> n, radius |-> st.radius, turns |-> st.turns,
      yStart |-> st.yStart, yEnd |-> st.yEnd, phaseOffset |-> st.phaseOffset,
      scatterRadius |-> st.scatterRadius ] : st \in RibbonStyles, n \in 1..MaxSegments }

numControlPoints == 5

\* the random control points of the scatter curve; per point the draws are
\* taken in the order r, theta, phi
ControlPoints(props, seed, base) ==
  [ c \in 0..(numControlPoints - 1) |->
      LET r      == Mul(props.scatterRadius, Cbrt(Random(seed, base + 3 * c)))
          theta  == Mul(Random(seed, base + 3 * c + 1), TwoPi)
          cosPhi == 2 * Random(seed, base + 3 * c + 2) - Scale
          sinPhi == Sqrt(Scale - Mul(cosPhi, cosPhi))
      IN  << Mul(Mul(r, sinPhi), Cos(theta)),
             Mul(Mul(r, sinPhi), Sin(theta)),
             Mul(r, cosPhi) >> ]

\* CatmullRomCurve3.getPoint(t) of an open curve: the curve passes through
\* control point k at t = k / (l - 1); between two control points the cubic
\* is taken along their chord
CurvePoint(points, t) ==
  LET p0        == (numControlPoints - 1) * t
      atEnd     == p0 >= (numControlPoints - 1) * Scale
      intPoint  == IF atEnd THEN numControlPoints - 2 ELSE p0 \div Scale
      weight    == IF atEnd THEN Scale ELSE p0 % Scale
  IN  LerpVectors(points[intPoint], points[intPoint + 1], weight)

\* Ribbon paths useMemo: treePath and scatterPath, segments + 1 samples each
RibbonPaths(props, seed, base) ==
  LET cps == ControlPoints(props, seed, base)
      frac(i) == RoundDiv(i * Scale, props.segments)
      treePoint(i) ==
        LET t     == frac(i)
            y     == Lerp(props.yStart, props.yEnd, t)
            hNorm == Div(y - props.yStart, props.yEnd - props.yStart)
            currentRadius == Lerp(props.radius, 500, hNorm)
            angle == Mul(Mul(t, TwoPi), props.turns) + props.phaseOffset
        IN  << Mul(Cos(angle), currentRadius), y, Mul(Sin(angle), currentRadius) >>
  IN  [ treePath    |-> [ i \in 0..props.segments |-> treePoint(i) ],
        scatterPath |-> [ i \in 0..props.segments |-> CurvePoint(cps, frac(i)) ] ]

\* instances of the Ornaments in the model (40..200 in Experience.tsx)
OrnamentCount == 2

\* Ornaments data useMemo, for <Ornaments scaleBase={0.35}>: per item the draws
\* d[0..11] are taken in the order tree radius, three noises, scatter u, v, w,
\* two rotations, scale, speed, phase
OrnamentItem(i, count, d) ==
  LET treePos == getTreePosition(11 * Scale, 4500, 6 * Scale, i, count, d[0])
  IN  [ treePosition    |-> << treePos[1] + Mul(d[1] - 500, 500),
                               treePos[2] + Mul(d[2] - 500, 500),
                               treePos[3] + Mul(d[3] - 500, 500) >>,
        scatterPosition |-> getScatterPosition(12 * Scale, d[4], d[5], d[6]),
        rotation        |-> << Mul(d[7], Pi), Mul(d[8], Pi), 0 >>,
        scale           |-> Mul(350, 800 + Mul(d[9], 400)),
        speed           |-> 200 + Mul(d[10], 500),
        phase           |-> Mul(Mul(d[11], Pi), 2 * Scale) ]

\* the items of an <Ornaments count={count}>, drawn from stream `seed`
OrnamentItems(count, seed, base) ==
  [ i \in 0..(count - 1) |->
      OrnamentItem(i, count, [ j \in 0..11 |-> Random(seed, base + 12 * i + j) ]) ]

\* the data of an <Ornaments count={OrnamentCount}>
OrnamentData(seed, base) == OrnamentItems(OrnamentCount, seed, base)

\* StarTopper useMemo
TopperData(seed, base) ==
  [ posTree    |-> << 0, 6800, 0 >>,
    posScatter |-> getScatterPosition(20 * Scale, Random(seed, base),
                                      Random(seed, base + 1), Random(seed, base + 2)) ]

---------------------------------------------------------------------------
(* Ribbon: geometry setup (useLayoutEffect) and per-frame strip (useFrame) *)

\* useLayoutEffect: zeroed positions and uvs for (segments + 1) * 2 vertices,
\* two triangles per segment; no normal attribute yet
\* a faulty variant: the second triangle starts one vertex late
RECURSIVE RibbonIndicesShifted(_, _)
RibbonIndicesShifted(segments, i) ==
  IF i >= segments THEN << >>
  ELSE LET base == i * 2
       IN  << base, base + 1, base + 2, base + 2, base + 4, base + 3 >>
             \o RibbonIndicesShifted(segments, i + 1)

RECURSIVE RibbonIndices(_, _)
RibbonIndices(segments, i) ==
  IF i >= segments THEN << >>
  ELSE LET base == i * 2
       IN  << base, base + 1, base + 2, base + 1, base + 3, base + 2 >>
             \o RibbonIndices(segments, i + 1)

RibbonSetup(segments) ==
  LET vertexCount == (segments + 1) * 2
  IN  [ position |-> [ k \in 0..(vertexCount - 1) |-> ZeroVec ],
        uv       |-> [ k \in 0..(vertexCount - 1) |->
                         << IF k % 2 = 0 THEN 0 ELSE Scale,
                            RoundDiv((k \div 2) * Scale, segments) >> ],
        index    |-> RibbonIndices(segments, 0),
        normal   |-> << >> ]

\* posAttr.setXYZ(k, x, y, z) on buf = [position, written]: a write past the
\* end of a typed array is dropped; `written` records the slot asked for
SetXYZ(buf, k, v) ==
  [ position |-> IF k \in DOMAIN buf.position
                 THEN [buf.position EXCEPT ![k] = v] ELSE buf.position,
    written  |-> buf.written \cup {k} ]

\* the blended-and-noised center of path sample j, used for index i and for
\* its iNext
RibbonCenter(props, ps, t, time, j) ==
  LET floatFactor == Scale - t
      noiseX == Mul(Mul(Sin(Mul(time, 500) + j * 100 + props.phaseOffset), floatFactor), 1500)
      noiseY == Mul(Mul(Cos(Mul(time, 300) + j * 100), floatFactor), 1500)
      noiseZ == Mul(Mul(Sin(Mul(time, 400) + j * 50), floatFactor), 1500)
      pScatter == ps.scatterPath[j]
      pTree    == ps.treePath[j]
  IN  << Lerp(pScatter[1] + noiseX, pTree[1], t),
         Lerp(pScatter[2] + noiseY, pTree[2], t),
         Lerp(pScatter[3] + noiseZ, pTree[3], t) >>

\* the path samples index i reads: i, iNext and, at the last index, iPrev
IndexNext(i, segments) == IF i + 1 < segments THEN i + 1 ELSE segments

IndexPrev(i) == IF i - 1 > 0 THEN i - 1 ELSE 0

\* the up vector the side vector is taken against
binormal == << 0, Scale, 0 >>

\* a faulty variant: at the last index the tangent of the previous segment
RibbonTangentFromPrev(props, ps, t, time, i) ==
  IF i = props.segments
  THEN Normalize(VSub(RibbonCenter(props, ps, t, time, i),
                      RibbonCenter(props, ps, t, time, IndexPrev(i))))
  ELSE Normalize(VSub(RibbonCenter(props, ps, t, time, IndexNext(i, props.segments)),
                      RibbonCenter(props, ps, t, time, i)))

\* the tangent at index i
RibbonTangent(props, ps, t, time, i) ==
  IF i = props.segments
  THEN << 0, Scale, 0 >>
  ELSE Normalize(VSub(RibbonCenter(props, ps, t, time, IndexNext(i, props.segments)),
                      RibbonCenter(props, ps, t, time, i)))

\* a faulty variant: the twist does not relax with t
TwistAngleUnfaded(t, i) == Mul(i * 100, 5 * Scale)

\* twistAngle = i * 0.1 * (1 - t) * 5
TwistAngle(t, i) == Mul(Mul(i * 100, Scale - t), 5 * Scale)

\* a faulty variant: a zero cross product is replaced by the x axis
RibbonNormalWithDefault(props, ps, t, time, i) ==
  LET tangent == RibbonTangent(props, ps, t, time, i)
      cross   == Cross(tangent, binormal)
      normal  == IF cross = ZeroVec THEN << Scale, 0, 0 >> ELSE Normalize(cross)
      twistAngle == TwistAngle(t, i)
  IN  IF twistAngle # 0 THEN ApplyAxisAngle(normal, tangent, twistAngle) ELSE normal

\* the side vector at index i: cross(tangent, up) normalized, then twisted
RibbonNormal(props, ps, t, time, i) ==
  LET tangent == RibbonTangent(props, ps, t, time, i)
      normal  == Normalize(Cross(tangent, binormal))
      twistAngle == TwistAngle(t, i)
  IN  IF twistAngle # 0 THEN ApplyAxisAngle(normal, tangent, twistAngle) ELSE normal

\* one pass of the loop body: the two vertices written for index i
RibbonWrite(buf, props, ps, t, time, i) ==
  LET c          == RibbonCenter(props, ps, t, time, i)
      sideOffset == VScale(RibbonNormal(props, ps, t, time, i), Mul(props.width, 500))
  IN  SetXYZ(SetXYZ(buf, i * 2, VAdd(c, sideOffset)), i * 2 + 1, VSub(c, sideOffset))

\* a faulty variant: the loop stops one index early (i < segments)
RECURSIVE RibbonLoopExclusive(_, _, _, _, _, _)
RibbonLoopExclusive(buf, props, ps, t, time, i) ==
  IF i >= props.segments THEN buf
  ELSE RibbonLoopExclusive(RibbonWrite(buf, props, ps, t, time, i), props, ps, t, time, i + 1)

\* for (let i = 0; i <= segments; i++) { ... }
RECURSIVE RibbonLoop(_, _, _, _, _, _)
RibbonLoop(buf, props, ps, t, time, i) ==
  IF i > props.segments THEN buf
  ELSE RibbonLoop(RibbonWrite(buf, props, ps, t, time, i), props, ps, t, time, i + 1)

\* geo.computeVertexNormals() of an indexed geometry: every face normal
\* (pC - pB) x (pA - pB) is added to its three vertices, then each is normalized
RECURSIVE FaceNormalSum(_, _, _, _)
FaceNormalSum(position, index, k, f) ==
  IF 3 * f + 3 > Len(index) THEN ZeroVec
  ELSE LET vA == index[3 * f + 1]
           vB == index[3 * f + 2]
           vC == index[3 * f + 3]
           cb == Cross(VSub(position[vC], position[vB]), VSub(position[vA], position[vB]))
       IN  VAdd(IF k \in {vA, vB, vC} THEN cb ELSE ZeroVec,
                FaceNormalSum(position, index, k, f + 1))

ComputeVertexNormals(position, index) ==
  [ k \in DOMAIN position |-> Normalize(FaceNormalSum(position, index, k, 0)) ]

\* the strip of one frame, and its commit to the geometry
RibbonStrip(w, progress) ==
  RibbonLoop([ position |-> w.geometry.position, written |-> {} ],
             w.ribbonProps, w.paths, Smoothstep(progress), w.elapsedTime, 0)

RibbonCommit(w, progress, buf) ==
  [ w EXCEPT !.geometry.position = buf.position,
             !.geometry.normal = ComputeVertexNormals(buf.position, w.geometry.index),
             !.written = buf.written,
             !.seen.Ribbon = progress ]

\* a faulty variant: the noise is added to the scatter path sample in place
RibbonFrameInPlace(w) ==
  LET after == RibbonCommit(w, w.animationProgress, RibbonStrip(w, w.animationProgress))
      t     == Smoothstep(w.animationProgress)
  IN  [ after EXCEPT !.paths.scatterPath[0][2] =
          @ + Mul(Mul(Cos(Mul(w.elapsedTime, 300)), Scale - t), 1500) ]

\* the useFrame callback of Ribbon
RibbonFrame(w) ==
  RibbonCommit(w, w.animationProgress, RibbonStrip(w, w.animationProgress))

---------------------------------------------------------------------------
(* Ornaments: initial paint (useLayoutEffect) and per-frame transforms *)

\* tempObject.updateMatrix(): the matrix composed from position, Euler
\* rotation and scale, kept as those three components
Matrix(object) ==
  [ position |-> object.position, rotation |-> object.rotation, scale |-> object.scale ]

\* new THREE.Object3D()
NewObject3D == [ position |-> ZeroVec, rotation |-> ZeroVec, scale |-> Scale ]

\* useLayoutEffect: every instance painted at its scatter position
OrnamentsSetup(items) ==
  [ i \in DOMAIN items |->
      Matrix([ position |-> items[i].scatterPosition,
               rotation |-> items[i].rotation,
               scale    |-> items[i].scale ]) ]

\* a faulty variant: the float term is not faded out (floatFactor stays 1)
OrnamentObjectFloatAlways(item, t, time) ==
  LET x == Lerp(item.scatterPosition[1], item.treePosition[1], t)
      y == Lerp(item.scatterPosition[2], item.treePosition[2], t)
      z == Lerp(item.scatterPosition[3], item.treePosition[3], t)
      floatFactor == Scale
      floatY   == Mul(Mul(Sin(Mul(time, item.speed) + item.phase), floatFactor), 500)
      floatRot == Mul(Mul(Mul(time, item.speed), 200), floatFactor)
  IN  [ position |-> << x, y + floatY, z >>,
        rotation |-> << item.rotation[1] + floatRot, item.rotation[2] + floatRot,
                        item.rotation[3] >>,
        scale    |-> item.scale ]

\* a faulty variant: the float term has the ribbons' amplitude 1.5
OrnamentObjectWideFloat(item, t, time) ==
  LET x == Lerp(item.scatterPosition[1], item.treePosition[1], t)
      y == Lerp(item.scatterPosition[2], item.treePosition[2], t)
      z == Lerp(item.scatterPosition[3], item.treePosition[3], t)
      floatFactor == Scale - t
      floatY   == Mul(Mul(Sin(Mul(time, item.speed) + item.phase), floatFactor), 1500)
      floatRot == Mul(Mul(Mul(time, item.speed), 200), floatFactor)
  IN  [ position |-> << x, y + floatY, z >>,
        rotation |-> << item.rotation[1] + floatRot, item.rotation[2] + floatRot,
                        item.rotation[3] >>,
        scale    |-> item.scale ]

\* the scratch object as the body of data.forEach leaves it for item i
OrnamentObject(item, t, time) ==
  LET x == Lerp(item.scatterPosition[1], item.treePosition[1], t)
      y == Lerp(item.scatterPosition[2], item.treePosition[2], t)
      z == Lerp(item.scatterPosition[3], item.treePosition[3], t)
      floatFactor == Scale - t
      floatY   == Mul(Mul(Sin(Mul(time, item.speed) + item.phase), floatFactor), 500)
      floatRot == Mul(Mul(Mul(time, item.speed), 200), floatFactor)
  IN  [ position |-> << x, y + floatY, z >>,
        rotation |-> << item.rotation[1] + floatRot, item.rotation[2] + floatRot,
                        item.rotation[3] >>,
        scale    |-> item.scale ]

\* data.forEach((item, i) => { ...; meshRef.current.setMatrixAt(i, tempObject.matrix) })
RECURSIVE OrnamentsLoop(_, _, _, _)
OrnamentsLoop(w, t, time, i) ==
  IF i \notin DOMAIN w.data THEN w
  ELSE LET object == OrnamentObject(w.data[i], t, time)
       IN  OrnamentsLoop([ w EXCEPT !.tempObject = object,
                                    !.instanceMatrix[i] = Matrix(object) ],
                         t, time, i + 1)

\* the useFrame callback of Ornaments
OrnamentsFrame(w) ==
  LET progress == w.animationProgress
      t        == Smoothstep(progress)
      after    == OrnamentsLoop(w, t, w.elapsedTime, 0)
  IN  [ after EXCEPT !.seen.Ornaments = progress ]

---------------------------------------------------------------------------
(* StarTopper and Foliage: per-frame updates *)

\* easeInOutCubic: p < 0.5 ? 4 p^3 : 1 - (-2 p + 2)^3 / 2
EaseInOutCubic(p) ==
  IF p < Scale \div 2
  THEN 4 * Mul(Mul(p, p), p)
  ELSE LET q == 2 * Scale - 2 * p
       IN  Scale - RoundDiv(Mul(Mul(q, q), q), 2)

\* a faulty variant: the spin is accumulated from frame to frame
StarTopperFrameAccumulating(w) ==
  LET progress  == w.animationProgress
      t         == EaseInOutCubic(progress)
      time      == w.elapsedTime
      spinSpeed == Lerp(2 * Scale, 500, t)
      pulse     == Scale + Mul(Sin(Mul(time, 2 * Scale)), 50)
      baseScale == Lerp(200, 650, t)
  IN  [ w EXCEPT
          !.topper.position = LerpVectors(w.topperData.posScatter, w.topperData.posTree, t),
          !.topper.rotation[2] = @ + Mul(w.delta, spinSpeed),
          !.topper.rotation[3] = Mul(Mul(Sin(Mul(time, 500)), 100), Scale - t),
          !.topper.scale = Mul(baseScale, pulse),
          !.seen.StarTopper = progress ]

\* the useFrame callback of StarTopper
StarTopperFrame(w) ==
  LET progress  == w.animationProgress
      t         == EaseInOutCubic(progress)
      time      == w.elapsedTime
      spinSpeed == Lerp(2 * Scale, 500, t)
      pulse     == Scale + Mul(Sin(Mul(time, 2 * Scale)), 50)
      baseScale == Lerp(200, 650, t)
  IN  [ w EXCEPT
          !.topper.position = LerpVectors(w.topperData.posScatter, w.topperData.posTree, t),
          !.topper.rotation[2] = Mul(time, spinSpeed),
          !.topper.rotation[3] = Mul(Mul(Sin(Mul(time, 500)), 100), Scale - t),
          !.topper.scale = Mul(baseScale, pulse),
          !.seen.StarTopper = progress ]

\* the useFrame callback of Foliage: the two uniforms the vertex shader reads
FoliageFrame(w) ==
  [ w EXCEPT !.uniforms.uTime = w.elapsedTime,
             !.uniforms.uProgress = w.animationProgress,
             !.seen.Foliage = w.animationProgress ]

---------------------------------------------------------------------------
(* Bounds of the model *)

\* frame deltas are 1..MaxDt quarters of a second
MaxDt == 4

DeltaTimes == { k * (Scale \div 4) : k \in 1..MaxDt }

\* the clock of the full scene is followed for MaxTime quarters of a second
MaxTime == 4

\* progress values explored: -0.5 .. 1.5 (a frame that would leave this
\* range is not explored; inside it the eased progress stays in [0,1])
MinProgress == -(Scale \div 2)

MaxProgress == Scale + (Scale \div 2)

---------------------------------------------------------------------------
(* Progress Controller: Experience.tsx, SceneContent *)

SCATTERED == "SCATTERED"

TREE_SHAPE == "TREE_SHAPE"

\* const targetProgress = treeState === TreeState.TREE_SHAPE ? 1 : 0
TargetOf(state) == IF state = TREE_SHAPE THEN Scale ELSE 0

targetProgress == TargetOf(treeState)

\* |diff| > 0.001
Epsilon == Scale \div 1000

\* a faulty variant: the rate 2.0 is left out of the speed
ProgressUpdateUnitRate(current, target, dt) ==
  LET speed == dt
      diff  == target - current
  IN  IF Abs(diff) > Epsilon THEN current + Mul(diff, speed) ELSE target

\* the progress written by the useFrame callback of SceneContent:
\*   speed = 2.0 * delta; diff = targetProgress - current;
\*   if (Math.abs(diff) > 0.001) current += diff * speed; else current = target
ProgressUpdate(current, target, dt) ==
  LET speed == 2 * dt
      diff  == target - current
  IN  IF Abs(diff) > Epsilon THEN current + Mul(diff, speed) ELSE target

\* the useFrame callback of SceneContent: the progress update, then the slow
\* rotation of the whole group while the tree is assembled
SceneContentFrame(w) ==
  [ w EXCEPT
      !.animationProgress = ProgressUpdate(w.animationProgress, TargetOf(w.treeState), w.delta),
      !.groupRotationY = IF w.treeState = TREE_SHAPE THEN @ + Mul(w.delta, 100) ELSE @ ]

---------------------------------------------------------------------------
(* The render loop *)

\* a faulty variant: the controller's callback is called first
SubscribersControllerFirst ==
  << "SceneContent", "Foliage", "Ribbon", "Ornaments", "StarTopper" >>

\* The useFrame callbacks in the order the loop calls them.  All have the
\* default priority, so the order is that of subscription, and each component
\* subscribes in a layout effect: the children of SceneContent (Foliage,
\* Ribbons, Ornaments, StarTopper, in JSX order) commit theirs before
\* SceneContent, their parent, commits its own.
Subscribers == << "Foliage", "Ribbon", "Ornaments", "StarTopper", "SceneContent" >>

Callback(name, w) ==
  CASE name = "Foliage"      -> FoliageFrame(w)
    [] name = "Ribbon"       -> RibbonFrame(w)
    [] name = "Ornaments"    -> OrnamentsFrame(w)
    [] name = "StarTopper"   -> StarTopperFrame(w)
    [] name = "SceneContent" -> SceneContentFrame(w)

RECURSIVE RunSubscribers(_, _)
RunSubscribers(w, k) ==
  IF k > Len(Subscribers) THEN w
  ELSE RunSubscribers(Callback(Subscribers[k], w), k + 1)

\* everything the callbacks of a frame can reach, as the frame starts: the
\* clock has advanced by dt
World(dt) ==
  [ treeState |-> treeState, animationProgress |-> animationProgress,
    delta |-> dt, elapsedTime |-> elapsedTime + dt,
    groupRotationY |-> groupRotationY,
    foliageData |-> foliageData, uniforms |-> uniforms,
    ribbonProps |-> ribbonProps, paths |-> paths, geometry |-> geometry,
    data |-> data, instanceMatrix |-> instanceMatrix, tempObject |-> tempObject,
    topperData |-> topperData, topper |-> topper, seen |-> seen, written |-> written ]

\* the history of the last mid-transition switch, after a tick
PhaseAfterTick == IF switchPhase = "switched" THEN "moved" ELSE "idle"

\* one frame of the render loop
Frame ==
  \E dt \in { d \in DeltaTimes : elapsedTime + d <= MaxTime * (Scale \div 4) } :
    \E w \in { RunSubscribers(World(dt), 1) } :
        /\ w.animationProgress >= MinProgress
        /\ w.animationProgress <= MaxProgress
        /\ treeState' = w.treeState
        /\ animationProgress' = w.animationProgress
        /\ delta' = w.delta
        /\ elapsedTime' = w.elapsedTime
        /\ groupRotationY' = w.groupRotationY
        /\ foliageData' = w.foliageData
        /\ uniforms' = w.uniforms
        /\ ribbonProps' = w.ribbonProps
        /\ paths' = w.paths
        /\ geometry' = w.geometry
        /\ data' = w.data
        /\ instanceMatrix' = w.instanceMatrix
        /\ tempObject' = w.tempObject
        /\ topperData' = w.topperData
        /\ topper' = w.topper
        /\ seen' = w.seen
        /\ written' = w.written
        /\ switchPhase' = PhaseAfterTick
        /\ UNCHANGED <<ascentFromZero, sample>>

\* one run of SceneContent's progress update, the rest of the scene left out
ProgressTick ==
  \E dt \in DeltaTimes :
    LET next == ProgressUpdate(animationProgress, targetProgress, dt)
    IN  /\ next >= MinProgress
        /\ next <= MaxProgress
        /\ animationProgress' = next
        /\ delta' = dt
        /\ switchPhase' = PhaseAfterTick
        /\ UNCHANGED <<treeState, ascentFromZero, sample>>
        /\ UNCHANGED sceneVars

\* Overlay button: setTreeState(treeState === SCATTERED ? TREE_SHAPE : SCATTERED);
\* the re-render recomputes targetProgress and keeps the refs and the memos
Toggle ==
  /\ treeState' = IF treeState = SCATTERED THEN TREE_SHAPE ELSE SCATTERED
  /\ switchPhase' = IF animationProgress > 0 /\ animationProgress < Scale
                    THEN "switched" ELSE "idle"
  /\ ascentFromZero' = (treeState = SCATTERED /\ animationProgress = 0)
  /\ UNCHANGED <<animationProgress, delta, sample>>
  /\ UNCHANGED sceneVars

\* the scene as mounted: every useMemo and useLayoutEffect has run, no frame yet
Mounted(seed, props, count) ==
    LET ribbonBase   == 5 * FoliageCount
        ornamentBase == ribbonBase + 3 * numControlPoints
        topperBase   == ornamentBase + 12 * count
        items        == OrnamentItems(count, seed, ornamentBase)
    IN  /\ treeState = SCATTERED
        /\ animationProgress = 0
        /\ delta = 0
        /\ elapsedTime = 0
        /\ groupRotationY = 0
        /\ foliageData = FoliageData(seed)
        /\ uniforms = [ uTime |-> 0, uProgress |-> 0 ]
        /\ ribbonProps = props
        /\ paths = RibbonPaths(props, seed, ribbonBase)
        /\ geometry = RibbonSetup(props.segments)
        /\ data = items
        /\ instanceMatrix = OrnamentsSetup(items)
        /\ tempObject = IF count <= 0 THEN NewObject3D
                        ELSE [ position |-> items[count - 1].scatterPosition,
                               rotation |-> items[count - 1].rotation,
                               scale    |-> items[count - 1].scale ]
        /\ topperData = TopperData(seed, topperBase)
        /\ topper = NewObject3D
        /\ seen = [ Foliage |-> 0, Ribbon |-> 0, Ornaments |-> 0, StarTopper |-> 0 ]
        /\ written = {}
        /\ switchPhase = "idle"
        /\ ascentFromZero = FALSE
        /\ sample = [ call |-> "none" ]

\* the scene of Experience.tsx, with a ribbon and a group of ornaments
Init == \E seed \in Seeds, props \in RibbonProps : Mounted(seed, props, OrnamentCount)

\* ribbon props as a caller may pass them: those of Ribbons, and the same with
\* a zero or a negative radius
RibbonConfigs ==
  RibbonProps \cup { [ props EXCEPT !.radius = r ] : props \in RibbonProps, r \in { 0, -Scale } }

\* the scene mounted with any props: nothing in the useMemo or useLayoutEffect
\* blocks inspects radius or count, and a count of 0 leaves the loops empty
ConfigInit ==
  \E seed \in Seeds, props \in RibbonConfigs, count \in 0..OrnamentCount :
    Mounted(seed, props, count)

\* largest `total` handed to a sampler on its own
MaxTotal == 4

\* the values a Math.random() draw takes in a sampler call on its own
Draws == { 0, 300, 700, 999 }

\* the cones of the callers: Foliage (12, 5, 6) and Ornaments (11, 4.5, 6)
TreeConfigs ==
  { [ height |-> 12 * Scale, baseRadius |-> 5 * Scale, yOffset |-> 6 * Scale ],
    [ height |-> 11 * Scale, baseRadius |-> 4500, yOffset |-> 6 * Scale ] }

\* the radii of the callers: Ornaments 12, Foliage 15, StarTopper 20
ScatterRadii == { 12 * Scale, 15 * Scale, 20 * Scale }

\* what a sampler call leaves unchanged
otherVars == <<treeState, animationProgress, delta, switchPhase, ascentFromZero,
               elapsedTime, groupRotationY, foliageData, uniforms, ribbonProps, paths,
               geometry, data, instanceMatrix, tempObject, topperData, topper, seen,
               written>>

\* one call getTreePosition(height, baseRadius, yOffset, index, total)
SampleTree ==
  \E cfg \in TreeConfigs, total \in 1..MaxTotal, w \in Draws :
    \E index \in 0..(total - 1) :
      /\ sample.call = "none"
      /\ sample' = [ call |-> "getTreePosition", cfg |-> cfg, index |-> index,
                     total |-> total, w |-> w,
                     result |-> getTreePosition(cfg.height, cfg.baseRadius, cfg.yOffset,
                                                index, total, w) ]
      /\ UNCHANGED otherVars

\* one call getScatterPosition(radius)
SampleScatter ==
  \E radius \in ScatterRadii, u \in Draws, v \in Draws, w \in Draws :
    /\ sample.call = "none"
    /\ sample' = [ call |-> "getScatterPosition", radius |-> radius,
                   u |-> u, v |-> v, w |-> w,
                   result |-> getScatterPosition(radius, u, v, w) ]
    /\ UNCHANGED otherVars

\* one pass of the loop of the Ornaments data useMemo; the four draws are
\* those of the tree position, and the later draws repeat them
SampleOrnament ==
  \E total \in 1..MaxTotal, draws \in [ 0..3 -> Draws ] :
    \E index \in 0..(total - 1) :
      LET d == [ j \in 0..11 |-> draws[j % 4] ]
      IN  /\ sample.call = "none"
          /\ sample' = [ call |-> "OrnamentItem", index |-> index, total |-> total,
                         draws |-> draws, result |-> OrnamentItem(index, total, d) ]
          /\ UNCHANGED otherVars

SamplerNext == SampleTree \/ SampleScatter \/ SampleOrnament

\* the samplers called on their own, as the useMemo loops call them; a call
\* depends on no earlier call and on nothing of the scene, so a behaviour
\* starts from one mounted scene and makes one call
SamplerInit ==
  \E props \in { c \in RibbonProps : c.segments = 1 /\ c.phaseOffset = 0 } :
    Mounted(0, props, OrnamentCount)

SamplerSpec == SamplerInit /\ [][SamplerNext]_vars

ProgressNext == ProgressTick \/ Toggle

\* the controller alone; the render loop never stops calling it
ProgressSpec == Init /\ [][ProgressNext]_vars /\ WF_vars(ProgressTick)

---------------------------------------------------------------------------
(* Claims about the Progress Controller, checked under ProgressSpec *)

\* a step of the controller's tick (a step that is not a toggle)
IsTick == treeState' = treeState

\* the damped step diff * 2.0 * dt of the tick being taken
DampedStep == Mul(targetProgress - animationProgress, 2 * delta')

\* C1: starting from current = 0 with the target held at 1, every tick with
\* dt > 0 strictly increases current until it equals exactly 1; current never
\* exceeds 1 and never decreases on the way.
C1_MonotoneAscent ==
  [][ (ascentFromZero /\ IsTick) =>
        IF animationProgress = Scale
        THEN animationProgress' = Scale
        ELSE animationProgress < animationProgress' /\ animationProgress' <= Scale
    ]_vars

\* C2: in every reachable state current lies in [0,1], the target is exactly
\* 0 or 1, and the target is 1 iff the formation state is TREE_SHAPE.
C2_ProgressInUnitRange ==
  /\ animationProgress >= 0
  /\ animationProgress <= Scale
  /\ targetProgress \in {0, Scale}
  /\ (targetProgress = Scale <=> treeState = TREE_SHAPE)

\* C3 as stated: a switch made while 0 < current < 1 is accepted and leaves
\* current unchanged, and the tick that follows changes current by the damped
\* step diff * 2.0 * dt only, toward the new target, never by a jump to an end.
C3_SwitchThenDampedStepOnly ==
  [][ /\ (~IsTick /\ animationProgress > 0 /\ animationProgress < Scale)
          => animationProgress' = animationProgress
      /\ (switchPhase = "switched" /\ IsTick) =>
            /\ Abs(targetProgress - animationProgress) > Epsilon
            /\ animationProgress' = animationProgress + DampedStep
            /\ Sign(animationProgress' - animationProgress)
                 = Sign(targetProgress - animationProgress)
    ]_vars

\* C3 as amended: a switch made while 0 < current < 1 is accepted and leaves
\* current unchanged; the tick that follows moves current toward the new
\* target by the damped step diff * 2.0 * dt when |diff| > 0.001, and snaps
\* current to the new target (a jump of at most 0.001) when |diff| <= 0.001.
C3_SwitchThenDampedStepOrSnap ==
  [][ /\ (animationProgress > 0 /\ animationProgress < Scale) => ENABLED Toggle
      /\ (~IsTick /\ animationProgress > 0 /\ animationProgress < Scale)
          => animationProgress' = animationProgress
      /\ (switchPhase = "switched" /\ IsTick) =>
            IF Abs(targetProgress - animationProgress) > Epsilon
            THEN /\ animationProgress' = animationProgress + DampedStep
                 /\ Sign(animationProgress' - animationProgress)
                      = Sign(targetProgress - animationProgress)
            ELSE /\ animationProgress' = targetProgress
                 /\ Abs(animationProgress' - animationProgress) <= Epsilon
    ]_vars

\* C3 witness: a tick has followed a switch made in mid-transition
C3_Witness ==
  /\ switchPhase = "moved"
  /\ animationProgress # 0
  /\ animationProgress # Scale

\* C4: once the target stops changing, after finitely many ticks current
\* equals the target exactly and every later tick leaves it there.
C4_ReachesTargetAndStays ==
  /\ <>[](treeState = TREE_SHAPE) => <>[](animationProgress = Scale)
  /\ <>[](treeState = SCATTERED) => <>[](animationProgress = 0)

---------------------------------------------------------------------------
(* Claims about the scene, checked under Spec *)

\* a step that is a frame of the render loop: the clock advances
IsFrame == elapsedTime' # elapsedTime

Consumers == { "Foliage", "Ribbon", "Ornaments", "StarTopper" }

\* the world as the last frame's callbacks saw it, for consumer c
Snapshot(c) == [ World(0) EXCEPT !.delta = delta, !.animationProgress = seen[c] ]

\* the same, with every output buffer as construction left it
FreshSnapshot(c) ==
  [ Snapshot(c) EXCEPT !.geometry = RibbonSetup(ribbonProps.segments),
                       !.instanceMatrix = OrnamentsSetup(data),
                       !.tempObject = NewObject3D,
                       !.topper = NewObject3D,
                       !.uniforms = [ uTime |-> 0, uProgress |-> 0 ] ]

\* C5: for a ribbon of N segments the position buffer always holds 2(N+1)
\* vertices and the index buffer 6N indices, and a tick writes exactly the
\* vertex slots 0..2N+1.
C5_RibbonBufferSizes ==
  LET n == ribbonProps.segments
  IN  /\ DOMAIN geometry.position = 0..(2 * (n + 1) - 1)
      /\ Len(geometry.index) = 6 * n
      /\ elapsedTime > 0 => written = 0..(2 * n + 1)

\* C5 witness: a ribbon of more than one segment has been rebuilt by a frame
\* that read a progress in mid-transition
C5_Witness ==
  /\ elapsedTime > 0
  /\ ribbonProps.segments > 1
  /\ seen.Ribbon > 0
  /\ seen.Ribbon < Scale

\* C6: when the progress read is exactly 1, the position written into every
\* instance transform equals that instance's treePosition, at every time.
C6_OrnamentsAtTreePosition ==
  (elapsedTime > 0 /\ seen.Ornaments = Scale) =>
    \A i \in DOMAIN data : instanceMatrix[i].position = data[i].treePosition

\* C6 witness: a frame has run the Ornaments with progress exactly 1
C6_Witness ==
  /\ elapsedTime > 0
  /\ seen.Ornaments = Scale
  /\ \E i \in DOMAIN data : data[i].treePosition # data[i].scatterPosition

\* the tolerance of the end-to-end position checks: 0.01
Tolerance == Scale \div 100

\* C7 as stated: when the progress read is exactly 0, the position written
\* into every instance transform equals that instance's scatterPosition within
\* the small tolerance.
C7_OrnamentsAtScatterPosition ==
  (elapsedTime > 0 /\ seen.Ornaments = 0) =>
    \A i \in DOMAIN data : \A k \in 1..3 :
      Abs(instanceMatrix[i].position[k] - data[i].scatterPosition[k]) <= Tolerance

\* C7 as amended: when the progress read is exactly 0, x and z of the position
\* written equal the scatterPosition's, and y is the scatterPosition's plus the
\* float term 0.5 * sin(time * speed + phase), at most 0.5 away.
C7_OrnamentsFloatAroundScatterPosition ==
  (elapsedTime > 0 /\ seen.Ornaments = 0) =>
    \A i \in DOMAIN data :
      LET pos   == instanceMatrix[i].position
          item  == data[i]
          float == Mul(Sin(Mul(elapsedTime, item.speed) + item.phase), 500)
      IN  /\ pos[1] = item.scatterPosition[1]
          /\ pos[3] = item.scatterPosition[3]
          /\ pos[2] = item.scatterPosition[2] + float
          /\ Abs(pos[2] - item.scatterPosition[2]) <= 500

\* C7 witness: a frame has run the Ornaments with progress exactly 0 and an
\* instance floats further from its scatterPosition than the tolerance
C7_Witness ==
  /\ elapsedTime > 0
  /\ seen.Ornaments = 0
  /\ \E i \in DOMAIN data :
       Abs(instanceMatrix[i].position[2] - data[i].scatterPosition[2]) > Tolerance

\* C8: every per-tick recompute is a function of the progress read, the
\* elapsed time and the static data: run again on what the last frame left, or
\* on buffers fresh from construction, it yields the buffers the last frame
\* left, whatever frames ran before.
C8_RecomputeIsPure ==
  elapsedTime > 0 =>
    /\ RibbonFrame(Snapshot("Ribbon")).geometry = geometry
    /\ RibbonFrame(FreshSnapshot("Ribbon")).geometry = geometry
    /\ OrnamentsFrame(Snapshot("Ornaments")).instanceMatrix = instanceMatrix
    /\ OrnamentsFrame(FreshSnapshot("Ornaments")).instanceMatrix = instanceMatrix
    /\ StarTopperFrame(Snapshot("StarTopper")).topper = topper
    /\ StarTopperFrame(FreshSnapshot("StarTopper")).topper = topper
    /\ FoliageFrame(Snapshot("Foliage")).uniforms = uniforms
    /\ FoliageFrame(FreshSnapshot("Foliage")).uniforms = uniforms

\* C8 witness: a frame has recomputed buffers that an earlier frame had
\* already written at another progress
C8_Witness ==
  /\ elapsedTime > delta
  /\ seen.Ribbon # 0
  /\ uniforms.uProgress # 0
  /\ topper.rotation[2] # 0

\* C9 as stated: in every frame the controller's update runs before every
\* consumer, so each consumer reads the progress produced in that frame.
C9_ConsumersReadThisFramesProgress ==
  elapsedTime > 0 => \A c \in Consumers : seen[c] = animationProgress

\* C9 as amended: in every frame all consumers read the same progress, the one
\* the frame started with (produced by the previous frame's update); no
\* consumer writes it, and the controller's update runs after the consumers.
C9_ConsumersReadPreviousProgress ==
  [][ IsFrame =>
        /\ \A c \in Consumers : seen'[c] = animationProgress
        /\ animationProgress' = ProgressUpdate(animationProgress, targetProgress, delta')
    ]_vars

\* C9 witness: a frame whose consumers all read one value and whose update
\* then produced another
C9_Witness ==
  /\ elapsedTime > 0
  /\ \A c \in Consumers : seen[c] = seen.Foliage
  /\ seen.Foliage # animationProgress

\* what construction generates and no frame may touch
StaticData ==
  << foliageData, ribbonProps, paths, geometry.index, geometry.uv, data, topperData >>

\* C10: no step modifies static data (ribbon paths and index buffer, ornament
\* items, topper positions, particle buffers); of the component buffers a
\* frame changes only vertex positions and normals, instance matrices, the
\* topper transform and the two uniforms, and none changes size.
C10_StaticDataImmutable ==
  [][ /\ StaticData' = StaticData
      /\ DOMAIN geometry' = DOMAIN geometry
      /\ DOMAIN geometry'.position = DOMAIN geometry.position
      /\ DOMAIN instanceMatrix' = DOMAIN instanceMatrix
      /\ DOMAIN uniforms' = DOMAIN uniforms
      /\ ~IsFrame => /\ geometry' = geometry
                     /\ instanceMatrix' = instanceMatrix
                     /\ topper' = topper
                     /\ uniforms' = uniforms
    ]_vars

\* C10 witness: frames have rewritten every per-tick buffer
C10_Witness ==
  /\ elapsedTime > 0
  /\ geometry.position # RibbonSetup(ribbonProps.segments).position
  /\ instanceMatrix # OrnamentsSetup(data)
  /\ topper # NewObject3D
  /\ uniforms.uTime # 0

---------------------------------------------------------------------------
(* Claims about the ribbon's frame vectors, checked under Spec *)

\* the eased progress of the ribbon's last tick
RibbonT == Smoothstep(seen.Ribbon)

\* the tangent, side vector and center the last tick used at index i
TangentAt(i) == RibbonTangent(ribbonProps, paths, RibbonT, elapsedTime, i)

NormalAt(i) == RibbonNormal(ribbonProps, paths, RibbonT, elapsedTime, i)

CenterAt(i) == RibbonCenter(ribbonProps, paths, RibbonT, elapsedTime, i)

\* C12: at every index the tangent and the side vector used to place the two
\* vertices are non-zero: a zero-length forward difference or cross product
\* is replaced by a fixed non-zero default axis.
C12_FrameVectorsNeverZero ==
  elapsedTime > 0 =>
    \A i \in 0..ribbonProps.segments :
      /\ TangentAt(i) # ZeroVec
      /\ NormalAt(i) # ZeroVec

---------------------------------------------------------------------------
(* Claims about the samplers, checked under SamplerSpec *)

\* p lies in the cone: y in [-yOffset, height - yOffset], and the horizontal
\* distance from the axis at most baseRadius * (1 - (y + yOffset) / height)
InCone(p, cfg) ==
  /\ p[2] >= -cfg.yOffset
  /\ p[2] <= cfg.height - cfg.yOffset
  /\ Length(<< p[1], 0, p[3] >>)
       <= Mul(Scale - Div(p[2] + cfg.yOffset, cfg.height), cfg.baseRadius)

\* the cone of the Ornaments
OrnamentCone == [ height |-> 11 * Scale, baseRadius |-> 4500, yOffset |-> 6 * Scale ]

\* C13 as stated: every generated treePosition, of particles and of ornaments,
\* lies inside the configured cone.
C13_TreePositionInCone ==
  /\ sample.call = "getTreePosition" => InCone(sample.result, sample.cfg)
  /\ sample.call = "OrnamentItem" => InCone(sample.result.treePosition, OrnamentCone)

\* C13 as amended: every treePosition getTreePosition returns (the particles')
\* lies inside the configured cone; an ornament's treePosition is such a point
\* of the cone (11, 4.5, 6) moved by a noise of at most 0.25 in each
\* coordinate, and may lie outside the cone.
C13_TreePositionInOrNearCone ==
  /\ sample.call = "getTreePosition" => InCone(sample.result, sample.cfg)
  /\ sample.call = "OrnamentItem" =>
       LET q == getTreePosition(OrnamentCone.height, OrnamentCone.baseRadius,
                                OrnamentCone.yOffset, sample.index, sample.total,
                                sample.draws[0])
           p == sample.result.treePosition
       IN  /\ InCone(q, OrnamentCone)
           /\ \A k \in 1..3 : Abs(p[k] - q[k]) <= 250

\* C13 witness: an ornament was generated whose treePosition is outside the
\* cone
C13_Witness ==
  /\ sample.call = "OrnamentItem"
  /\ ~InCone(sample.result.treePosition, OrnamentCone)

\* the y getTreePosition returns in the cone of the last call
TreeY(index, total, w) ==
  getTreePosition(sample.cfg.height, sample.cfg.baseRadius, sample.cfg.yOffset,
                  index, total, w)[2]

\* C14: for a fixed cone and total > 0 the y getTreePosition returns is
\* non-decreasing in index over 0 <= index < total, is the same for every
\* radial draw, and is the same for the same ratio index / total.
C14_TreeYMonotoneInIndex ==
  sample.call = "getTreePosition" =>
    /\ \A j \in 0..(sample.total - 1), w \in Draws :
          /\ j <= sample.index => TreeY(j, sample.total, w) <= sample.result[2]
          /\ j >= sample.index => TreeY(j, sample.total, w) >= sample.result[2]
    /\ TreeY(2 * sample.index, 2 * sample.total, sample.w) = sample.result[2]

\* C14 witness: a call with an index above 0 returned a y above the cone's base
C14_Witness ==
  /\ sample.call = "getTreePosition"
  /\ sample.index > 0
  /\ sample.index < sample.total - 1
  /\ sample.result[2] > -sample.cfg.yOffset

\* what the rounding of the sines and products may add to or take from the
\* length of a vector of length up to 20: 0.05
LengthTolerance == Scale \div 20

\* C15: for every radius R > 0 and all draws in [0,1) the vector
\* getScatterPosition returns has length R * cbrt(w) <= R, w the radial draw;
\* so the scatterPosition of every particle, ornament and of the topper lies
\* within its scatter radius (15, 12, 20).
C15_ScatterWithinRadius ==
  /\ sample.call = "getScatterPosition" =>
       /\ Length(sample.result) <= sample.radius
       /\ Abs(Length(sample.result) - Mul(Cbrt(sample.w), sample.radius))
            <= LengthTolerance
  /\ sample.call = "OrnamentItem" =>
       Length(sample.result.scatterPosition) <= 12 * Scale
  /\ \A i \in DOMAIN foliageData.positionsScatter :
       Length(foliageData.positionsScatter[i]) <= 15 * Scale
  /\ \A i \in DOMAIN data : Length(data[i].scatterPosition) <= 12 * Scale
  /\ Length(topperData.posScatter) <= 20 * Scale

\* C15 witness: a call with the largest radial draw returned a point close to
\* the sphere's surface
C15_Witness ==
  /\ sample.call = "getScatterPosition"
  /\ sample.w = 999
  /\ Length(sample.result) > Mul(sample.radius, 990)

---------------------------------------------------------------------------
(* Claims about the ribbon's boundary and buffers, checked under Spec *)

\* the tangent the boundary rule gives at index i: the (normalized) forward
\* difference of the centers below the last index, the up vector at it
ForwardOrUp(i) ==
  IF i = ribbonProps.segments
  THEN << 0, Scale, 0 >>
  ELSE Normalize(VSub(CenterAt(i + 1), CenterAt(i)))

\* the side offset that goes with a tangent at index i
SideOffsetFor(tangent, i) ==
  LET normal == Normalize(Cross(tangent, binormal))
      angle  == TwistAngle(RibbonT, i)
      side   == IF angle # 0 THEN ApplyAxisAngle(normal, tangent, angle) ELSE normal
  IN  VScale(side, Mul(ribbonProps.width, 500))

TreeSideOffset(i) ==
  LET tangent == IF i = ribbonProps.segments
                 THEN << 0, Scale, 0 >>
                 ELSE Normalize(VSub(paths.treePath[i + 1], paths.treePath[i]))
  IN  VScale(Normalize(Cross(tangent, binormal)), Mul(ribbonProps.width, 500))

\* C17: when the ribbon's tick reads progress exactly 1, at every index the
\* twist angle is zero and the center is treePath[i], and the two vertices
\* written are treePath[i] +- the side offset of the tree path alone: the
\* buffer depends on the tree path and the width only, not on the elapsed
\* time or the scatter path.
C17_RibbonOnTreePathAtOne ==
  (elapsedTime > 0 /\ seen.Ribbon = Scale) =>
    \A i \in 0..ribbonProps.segments :
      /\ TwistAngle(RibbonT, i) = 0
      /\ CenterAt(i) = paths.treePath[i]
      /\ geometry.position[2 * i] = VAdd(paths.treePath[i], TreeSideOffset(i))
      /\ geometry.position[2 * i + 1] = VSub(paths.treePath[i], TreeSideOffset(i))

\* C17 witness: a frame has built a ribbon of more than one segment with
\* progress exactly 1, and the strip has a width at index 1
C17_Witness ==
  /\ elapsedTime > 0
  /\ seen.Ribbon = Scale
  /\ ribbonProps.segments > 1
  /\ geometry.position[2] # geometry.position[3]

C19_RibbonIndexBuffer ==
  LET n     == ribbonProps.segments
      index == geometry.index
  IN  /\ Len(index) = 6 * n
      /\ \A i \in 0..(n - 1) :
           SubSeq(index, 6 * i + 1, 6 * i + 6)
             = << 2 * i, 2 * i + 1, 2 * i + 2, 2 * i + 1, 2 * i + 3, 2 * i + 2 >>
      /\ \A k \in 1..Len(index) : index[k] \in 0..(2 * n + 1)
      /\ \A k \in 1..Len(index) : index[k] \in DOMAIN geometry.position
      /\ \A v \in DOMAIN geometry.position : \E k \in 1..Len(index) : index[k] = v

\* C19 witness: a frame has computed the normals of a ribbon of more than
\* one segment from its index buffer
C19_Witness ==
  /\ elapsedTime > 0
  /\ ribbonProps.segments > 1
  /\ DOMAIN geometry.normal = DOMAIN geometry.position
  /\ Len(geometry.index) > 6

---------------------------------------------------------------------------
(* Claim about construction with any props, checked under ConfigSpec *)

\* what the configuration of the mounted elements is, as the claims name it
InvalidConfiguration ==
  \/ DOMAIN data = {}
  \/ ribbonProps.segments <= 0
  \/ ribbonProps.radius <= 0
  \/ ribbonProps.scatterRadius <= 0

\* C11: an element with an invalid configuration (count <= 0, 0 segments, a
\* non-positive radius) is rejected at construction, so no per-tick update
\* ever runs on it: no frame has run and no ribbon vertex has been written.
C11_InvalidConfigurationRejected ==
  InvalidConfiguration => (elapsedTime = 0 /\ written = {})

Next == Frame \/ Toggle

Spec == Init /\ [][Next]_vars

\* the scene with any props
ConfigSpec == ConfigInit /\ [][Next]_vars

===========================================================================
